---- MODULE Spec2Model ----
(***************************************************************************)
(* A model of the hezar configuration layer (hezar/configs.py) and of the  *)
(* text-classification dataset wrapper                                     *)
(* (hezar/data/datasets/text_classification_dataset.py).                   *)
(*                                                                         *)
(* Python values are records [t, s, i] so that values of different Python  *)
(* types can be compared (m holds the items of a dict value); a dict is a  *)
(* function whose DOMAIN is its key set; an object is the function of its  *)
(* instance attributes.                                                    *)
(***************************************************************************)
EXTENDS Integers, Sequences, FiniteSets, TLC

VARIABLES
    dict_config,    \* the caller's dict passed to from_dict (mutable, shared)
    result,         \* what the last call returned or raised
    call,           \* the last call: operation, class, arguments, input before
    ncalls,         \* number of calls made so far
    file,           \* the file written by save_pretrained, or NoFile
    hub,            \* the configuration file the hub serves
    python,         \* the version of the interpreter that runs the module
    heap,           \* the sub-config objects: object id -> attributes
    tasks,          \* the TaskConfig instances: sequence of their attributes
    assigned,       \* the instances through which a sub-config was assigned
    external,       \* the external dataset: label names and rows
    ds,             \* the TextClassificationDataset object and its config
    events,         \* the calls the dataset made to external libraries
    item            \* what the last __len__ / __getitem__ returned

vars == <<dict_config, result, call, ncalls, file, hub, python, heap,
          tasks, assigned, external, ds, events, item>>

(***************************************************************************)
(* Bounds of the model.                                                    *)
(***************************************************************************)
MaxCalls == 1
MaxKeys == 1
MaxTasks == 2
MaxAssign == 2
MaxLabels == 2
MaxRows == 1
MaxOps == 3

(***************************************************************************)
(* Python values.                                                          *)
(***************************************************************************)
None == [t |-> "none", s |-> "", i |-> 0, m |-> <<>>]
StrV(x) == [t |-> "str", s |-> x, i |-> 0, m |-> <<>>]
IntV(n) == [t |-> "int", s |-> "", i |-> n, m |-> <<>>]
EmptyList == [t |-> "list", s |-> "", i |-> 0, m |-> <<>>]
\* a reference to the object o of the heap
Ref(o) == [t |-> "ref", s |-> o, i |-> 0, m |-> <<>>]
\* a dict value with the items d
DictV(d) == [t |-> "dict", s |-> "", i |-> 0, m |-> d]

\* repr(v) of an int, a str of letters and digits, None, the empty list and
\* a dict of at most one key (a dict of more keys is printed in insertion
\* order, which a DictV does not record)
RECURSIVE repr(_)
repr(v) ==
    CASE v.t = "int" -> ToString(v.i)
      [] v.t = "str" -> "'" \o v.s \o "'"
      [] v.t = "none" -> "None"
      [] v.t = "list" -> "[]"
      [] v.t = "dict" /\ DOMAIN v.m = {} -> "{}"
      [] v.t = "dict" /\ Cardinality(DOMAIN v.m) = 1 ->
            LET k == CHOOSE k \in DOMAIN v.m : TRUE
            IN  "{'" \o k \o "': " \o repr(v.m[k]) \o "}"

\* str(v): the text of a str, the repr of every other value
Str(v) == IF v.t = "str" THEN v.s ELSE repr(v)

EmptyDict == [k \in {} |-> None]

\* d.update(**kwargs): the keys of kwargs are added or overwritten
Update(d, kwargs) ==
    [k \in DOMAIN d \cup DOMAIN kwargs |->
        IF k \in DOMAIN kwargs THEN kwargs[k] ELSE d[k]]

\* {k: v for k, v in d.items() if k in keys}
Restrict(d, keys) == [k \in DOMAIN d \cap keys |-> d[k]]

\* An entry of a top-level dict: a nested mapping or a leaf value.
MapEntry(m) == [isMap |-> TRUE, map |-> m, leaf |-> None]
LeafEntry(v) == [isMap |-> FALSE, map |-> EmptyDict, leaf |-> v]

(***************************************************************************)
(* The config classes.                                                     *)
(***************************************************************************)
AllClasses == {"BaseConfig", "ModelConfig", "DatasetConfig", "CriterionConfig",
               "OptimizerConfig", "TaskConfig", "TextClassificationDatasetConfig"}

\* the base class of a config class
Parent(cls) ==
    IF cls = "TextClassificationDatasetConfig" THEN "DatasetConfig"
    ELSE IF cls = "BaseConfig" THEN "object"
    ELSE "BaseConfig"

\* cls.__annotations__: the annotations of the class body itself
Annotations(cls) ==
    CASE cls = "BaseConfig" -> {"config_type"}
      [] cls = "ModelConfig" ->
            {"config_type", "name", "pretrained_path", "inner_model_config"}
      [] cls = "DatasetConfig" -> {"config_type", "name", "task"}
      [] cls = "CriterionConfig" ->
            {"config_type", "name", "weight", "reduce", "ignore_index"}
      [] cls = "OptimizerConfig" -> {"config_type", "name", "lr"}
      [] cls = "TaskConfig" ->
            {"config_type", "device", "model_name", "name", "model_config",
             "dataset_config", "criterion_config", "optimizer_config"}
      [] cls = "TextClassificationDatasetConfig" ->
            {"name", "task", "path", "preprocessors", "tokenizer_path",
             "label_field", "text_field", "max_length"}
      [] OTHER -> {}

\* dataclasses.fields(cls): the fields of the class and of its bases
RECURSIVE Fields(_)
Fields(cls) ==
    IF cls = "object" THEN {} ELSE Annotations(cls) \cup Fields(Parent(cls))

\* the fields declared with field(default_factory=...): the dataclass
\* decorator deletes their class attribute
FactoryFields(cls) ==
    IF cls = "TextClassificationDatasetConfig" THEN {"preprocessors"} ELSE {}

\* the functions defined in the body of BaseConfig
Methods == {"dict", "from_pretrained", "from_dict", "save_pretrained"}

\* cls.config_type, the class attribute
ConfigType(cls) ==
    CASE cls = "BaseConfig" -> "base"
      [] cls = "ModelConfig" -> "model"
      [] cls = "DatasetConfig" -> "dataset"
      [] cls = "CriterionConfig" -> "criterion"
      [] cls = "OptimizerConfig" -> "optimizer"
      [] cls = "TaskConfig" -> "task"
      [] cls = "TextClassificationDatasetConfig" -> "dataset"

\* the object the class statement of TaskConfig evaluates as a field default
DefaultObject(f) ==
    CASE f = "model_config" -> "ModelConfig()"
      [] f = "dataset_config" -> "DatasetConfig()"
      [] f = "criterion_config" -> "CriterionConfig()"
      [] f = "optimizer_config" -> "OptimizerConfig()"

SubConfigFields ==
    {"model_config", "dataset_config", "criterion_config", "optimizer_config"}

\* the default of field f of cls
Default(cls, f) ==
    IF f = "config_type" THEN StrV(ConfigType(cls))
    ELSE IF cls = "TextClassificationDatasetConfig" /\ f \in {"name", "task"}
        THEN StrV("text_classification")
    ELSE IF cls = "TextClassificationDatasetConfig" /\ f = "preprocessors"
        THEN EmptyList
    ELSE IF cls = "CriterionConfig" /\ f = "ignore_index" THEN IntV(-100)
    ELSE IF cls = "TaskConfig" /\ f = "device" THEN StrV("cpu")
    ELSE IF cls = "TaskConfig" /\ f \in SubConfigFields
        THEN Ref(DefaultObject(f))
    ELSE None

\* the interpreters on which hezar/configs.py can be imported: Literal needs
\* Python 3.8, and from Python 3.11 on the dataclass decorator rejects the
\* defaults of TaskConfig
Pythons == {"3.8", "3.9", "3.10"}

\* the attributes every config class has from object, from its metaclass
\* type and from the dataclass decorator, on every interpreter
InheritedAttrs ==
    {"__annotations__", "__base__", "__bases__", "__basicsize__", "__call__",
     "__class__", "__dataclass_fields__", "__dataclass_params__",
     "__delattr__", "__dict__", "__dictoffset__", "__dir__", "__doc__",
     "__eq__", "__flags__", "__format__", "__ge__", "__getattribute__",
     "__gt__", "__hash__", "__init__", "__init_subclass__",
     "__instancecheck__", "__itemsize__", "__le__", "__lt__",
     "__module__", "__mro__", "__name__", "__ne__",
     "__new__", "__prepare__", "__qualname__", "__reduce__",
     "__reduce_ex__", "__repr__", "__setattr__", "__sizeof__",
     "__str__", "__subclasscheck__", "__subclasses__", "__subclasshook__",
     "__text_signature__", "__weakref__", "__weakrefoffset__", "mro"}

\* the attributes Python 3.10 adds: __match_args__ from the dataclass
\* decorator, __or__ and __ror__ from type
InheritedAttrsSince310 == {"__match_args__", "__or__", "__ror__"}

\* hasattr(cls, k): the lookup on the class, its bases and its metaclass
HasAttr(cls, k) ==
    \/ k \in Methods
    \/ k \in InheritedAttrs
    \/ python = "3.10" /\ k \in InheritedAttrsSince310
    \/ k \in Fields(cls) \ FactoryFields(cls)

\* cls(**kw): the generated __init__ of the dataclass
New(cls, kw) ==
    [f \in Fields(cls) |-> IF f \in DOMAIN kw THEN kw[f] ELSE Default(cls, f)]

\* the class of the object o of the heap
ClassOf(o) ==
    CASE o = "ModelConfig()" -> "ModelConfig"
      [] o = "DatasetConfig()" -> "DatasetConfig"
      [] o = "CriterionConfig()" -> "CriterionConfig"
      [] o = "OptimizerConfig()" -> "OptimizerConfig"

\* the conversion asdict applies to a value: a dataclass instance becomes
\* the dict of its converted fields, a dict the dict of its converted values
RECURSIVE asdict_inner(_)
asdict_inner(v) ==
    IF v.t = "ref"
    THEN DictV([g \in Fields(ClassOf(v.s)) |-> asdict_inner(heap[v.s][g])])
    ELSE IF v.t = "dict"
    THEN DictV([k \in DOMAIN v.m |-> asdict_inner(v.m[k])])
    ELSE v

\* BaseConfig.dict: asdict(self), the fields only, each value converted
dict(cls, attrs) == [f \in Fields(cls) |-> asdict_inner(attrs[f])]

(***************************************************************************)
(* BaseConfig.from_dict, from_pretrained and save_pretrained.              *)
(***************************************************************************)
NoAttrs == EmptyDict
NoRaw == [k \in {} |-> LeafEntry(None)]

Outcome(kind, cls, attrs, raw) ==
    [kind |-> kind, cls |-> cls, attrs |-> attrs, raw |-> raw]

\* Lookup as dict_config.get(key, {}) would do it: no KeyError
LookupOrEmpty(dict_config_in, key) ==
    IF key \in DOMAIN dict_config_in
    THEN [found |-> TRUE, entry |-> dict_config_in[key]]
    ELSE [found |-> TRUE, entry |-> MapEntry(EmptyDict)]

\* dict_config[key], the lookup of line 47: the entry, or KeyError
Lookup(dict_config_in, key) ==
    IF key \in DOMAIN dict_config_in
    THEN [found |-> TRUE, entry |-> dict_config_in[key]]
    ELSE [found |-> FALSE, entry |-> LeafEntry(None)]

\* the keys k of the section for which the loop of lines 55-62 finds
\* `not hasattr(cls, k)`
Unknown(cls, section) == {k \in DOMAIN section : ~HasAttr(cls, k)}

\* the keyword arguments of the constructor call of lines 50-53
InitKwargs(cls, section) == Restrict(section, Annotations(cls))

\* the parameters of from_dict that a call fills before **kwargs: a keyword
\* argument of one of these names is a second value for the parameter
from_dict_params == {"cls", "dict_config"}

\* the same for from_pretrained (a keyword filename is the parameter itself)
from_pretrained_params == {"cls", "pretrained_path"}

\* from_dict(cls, dict_config, strict, **kwargs): the outcome (a config or an
\* exception), the caller's dict after the call, and whether cls(...) ran
from_dict(cls, dict_config_in, strict, kwargs) ==
    LET found == Lookup(dict_config_in, ConfigType(cls)) IN
    IF DOMAIN kwargs \cap from_dict_params # {}
    THEN [out |-> Outcome("TypeError", cls, NoAttrs, NoRaw),
          dict_after |-> dict_config_in, constructed |-> FALSE]
    ELSE IF ~found.found
    THEN [out |-> Outcome("KeyError", cls, NoAttrs, NoRaw),
          dict_after |-> dict_config_in, constructed |-> FALSE]
    ELSE IF ~found.entry.isMap
    THEN [out |-> Outcome("AttributeError", cls, NoAttrs, NoRaw),
          dict_after |-> dict_config_in, constructed |-> FALSE]
    ELSE
        LET section == Update(found.entry.map, kwargs)
            after == [k \in DOMAIN dict_config_in |->
                        IF k = ConfigType(cls) THEN MapEntry(section)
                        ELSE dict_config_in[k]]
            config == New(cls, InitKwargs(cls, section))
            unknown == Unknown(cls, section)
        IN  IF strict /\ unknown # {}
            THEN [out |-> Outcome("ValueError", cls, NoAttrs, NoRaw),
                  dict_after |-> after, constructed |-> TRUE]
            ELSE [out |-> Outcome("config", cls,
                                  Update(config, Restrict(section, unknown)),
                                  NoRaw),
                  dict_after |-> after, constructed |-> TRUE]

\* HubInterface.get_config: a fresh copy of the configuration the hub serves
get_config(served) == served

\* from_pretrained that calls cls.from_dict(config) without the kwargs
from_pretrained_drops_kwargs(cls, served, strict, kwargs) ==
    LET config == get_config(served)
    IN  IF DOMAIN kwargs \cap from_pretrained_params # {}
        THEN [out |-> Outcome("TypeError", cls, NoAttrs, NoRaw),
              constructed |-> FALSE]
        ELSE IF ConfigType(cls) # "base"
        THEN [out |-> from_dict(cls, config, FALSE, EmptyDict).out,
              constructed |->
                  from_dict(cls, config, FALSE, EmptyDict).constructed]
        ELSE [out |-> Outcome("raw", cls, NoAttrs, config),
              constructed |-> FALSE]

\* from_pretrained(cls, pretrained_path, **kwargs), strict being one of
\* kwargs: the outcome (the fetched configuration, a config or an exception)
\* and whether cls(...) ran. Line 38 passes the kwargs on as keywords, so
\* from_dict raises TypeError for a keyword named after its parameters.
from_pretrained(cls, served, strict, kwargs) ==
    LET config == get_config(served)
    IN  IF DOMAIN kwargs \cap from_pretrained_params # {}
        THEN [out |-> Outcome("TypeError", cls, NoAttrs, NoRaw),
              constructed |-> FALSE]
        ELSE IF ConfigType(cls) # "base"
        THEN [out |-> from_dict(cls, config, strict, kwargs).out,
              constructed |->
                  from_dict(cls, config, strict, kwargs).constructed]
        ELSE [out |-> Outcome("raw", cls, NoAttrs, config),
              constructed |-> FALSE]

\* save_pretrained(self, save_dir): the mapping OmegaConf.save writes to the
\* file, self.dict(): one top-level entry per field
save_pretrained(cls, attrs) ==
    LET d == dict(cls, attrs)
    IN  [f \in DOMAIN d |->
            IF d[f].t = "dict" THEN MapEntry(d[f].m) ELSE LeafEntry(d[f])]

(***************************************************************************)
(* The inputs of the model.                                                *)
(***************************************************************************)
Keys == {"config_type", "preprocessors", "dict", "__match_args__", "extra"}
Vals == {StrV("a"), StrV("b")}
SectionNames == {"model", "dataset"}
ConfigClasses == {"BaseConfig", "ModelConfig", "DatasetConfig",
                  "TextClassificationDatasetConfig"}

\* the classes whose config_type can name a section of a dict
SectionClasses == {cls \in ConfigClasses : ConfigType(cls) # "base"}

\* the dicts with at most n keys
Sections(n) ==
    UNION {[K -> Vals] : K \in {S \in SUBSET Keys : Cardinality(S) <= n}}

\* the keyword arguments of a call: at most n keys, each given the value that
\* differs from one value of a section and equals the other
Kwargs(n) == {kwargs \in Sections(n) : \A k \in DOMAIN kwargs : kwargs[k] = StrV("b")}

\* the keyword arguments of a from_pretrained call: those, and the keyword
\* named after from_dict's parameter
PretrainedKwargs(n) ==
    Kwargs(n) \cup {[k \in {"dict_config"} |-> StrV("b")]}

\* the keyword arguments of the from_pretrained calls of the model
HubKwargs == PretrainedKwargs(MaxKeys)

\* the configurations a hub serves: at most one section, 'base' included
HubConfigs ==
    UNION {[N -> {MapEntry(s) : s \in Sections(MaxKeys)}] :
              N \in {S \in SUBSET (SectionNames \cup {"base"}) :
                        Cardinality(S) <= 1}}

\* the top-level dicts with at most one section
DictConfigs ==
    UNION {[N -> {MapEntry(s) : s \in Sections(MaxKeys)}] :
              N \in {S \in SUBSET SectionNames : Cardinality(S) <= 1}}

NoFile == [written |-> FALSE, cls |-> "", content |-> NoRaw, dict |-> NoAttrs]
NoResult == Outcome("none", "", NoAttrs, NoRaw)
NoCall == [op |-> "none", cls |-> "", strict |-> FALSE, kwargs |-> EmptyDict,
           before |-> NoRaw, constructed |-> FALSE]

(***************************************************************************)
(* The state of the parts a specification does not exercise.               *)
(***************************************************************************)
NoLabels == [id2label |-> [k \in {} |-> ""], label2id |-> [k \in {} |-> ""],
             num_labels |-> 0]
NoDataset == [constructed |-> FALSE, extracted |-> FALSE, raised |-> "",
              self |-> NoLabels, config |-> NoLabels]
NoItem == [op |-> "none", value |-> 0, labels |-> <<>>]
NoExternal == [failure |-> "", names |-> <<>>, rows |-> <<>>]

ConfigIdle ==
    /\ dict_config = NoRaw /\ result = NoResult /\ call = NoCall
    /\ ncalls = 0 /\ file = NoFile
HubIdle == hub = NoRaw
TaskIdle ==
    /\ heap = [o \in {} |-> NoAttrs]
    /\ tasks = <<>> /\ assigned = <<>>
DatasetIdle ==
    /\ external = NoExternal /\ ds = NoDataset /\ events = <<>>
    /\ item = NoItem

config_rest == <<hub, python, heap, tasks, assigned, external, ds,
                 events, item>>

(***************************************************************************)
(* The configuration layer: from_dict on the caller's dict, save_pretrained *)
(* of a returned config, from_dict on the content of the written file.     *)
(***************************************************************************)
Init ==
    /\ python \in Pythons
    /\ dict_config \in DictConfigs
    /\ result = NoResult /\ call = NoCall /\ ncalls = 0 /\ file = NoFile
    /\ HubIdle /\ TaskIdle /\ DatasetIdle

\* cls.from_dict(dict_config, strict=strict, **kwargs) on the caller's dict;
\* a run ends with the save of a returned config and the load of the file
FromDict(cls, strict, kwargs) ==
    /\ ncalls < MaxCalls
    /\ ~file.written
    /\ LET r == from_dict(cls, dict_config, strict, kwargs) IN
        /\ dict_config' = r.dict_after
        /\ result' = r.out
        /\ call' = [op |-> "from_dict", cls |-> cls, strict |-> strict,
                    kwargs |-> kwargs, before |-> dict_config,
                    constructed |-> r.constructed]
    /\ ncalls' = ncalls + 1
    /\ UNCHANGED <<file, config_rest>>

\* result.save_pretrained(save_dir) for the config the last call returned
SavePretrained ==
    /\ result.kind = "config"
    /\ ~file.written
    /\ file' = [written |-> TRUE, cls |-> result.cls,
                content |-> save_pretrained(result.cls, result.attrs),
                dict |-> dict(result.cls, result.attrs)]
    /\ call' = [NoCall EXCEPT !.op = "save_pretrained", !.cls = result.cls]
    /\ UNCHANGED <<dict_config, result, ncalls, config_rest>>

\* cls.from_dict(content of the written file), cls the class of the saved config
FromDictOfFile ==
    /\ file.written
    /\ call.op = "save_pretrained"
    /\ LET r == from_dict(file.cls, file.content, FALSE, EmptyDict) IN
        /\ result' = r.out
        /\ call' = [op |-> "from_dict_of_file", cls |-> file.cls,
                    strict |-> FALSE, kwargs |-> EmptyDict,
                    before |-> file.content, constructed |-> r.constructed]
    /\ UNCHANGED <<dict_config, ncalls, file, config_rest>>

Next ==
    \/ \E cls \in SectionClasses, strict \in BOOLEAN,
          kwargs \in Kwargs(MaxKeys) : FromDict(cls, strict, kwargs)
    \/ SavePretrained
    \/ FromDictOfFile

Spec == Init /\ [][Next]_vars

(***************************************************************************)
(* Claims about from_dict and save_pretrained, checked under Spec.         *)
(***************************************************************************)
\* k is in vars(config) of the returned config, with the value v
Carries(out, k, v) == k \in DOMAIN out.attrs /\ out.attrs[k] = v

\* the last call was from_dict on a dict that holds the section of the class
SectionGiven ==
    /\ call.op = "from_dict"
    /\ ConfigType(call.cls) \in DOMAIN call.before

\* the section dict_config[cls.config_type] as the caller passed it
SectionBefore == call.before[ConfigType(call.cls)].map

\* the section after the kwargs have been merged into it
Merged == Update(SectionBefore, call.kwargs)

\* C1: with strict=True, from_dict raises ValueError if and only if the
\* merged section holds a key that is not a declared field of cls (own or
\* inherited), and returns a config when every key is a declared field.
C1_StrictRaisesIffUndeclaredKey ==
    (SectionGiven /\ call.strict) =>
        /\ result.kind = "ValueError" <=>
              (\E k \in DOMAIN Merged : k \notin Fields(call.cls))
        /\ (\A k \in DOMAIN Merged : k \in Fields(call.cls)) =>
              result.kind = "config"

\* C2: with strict=False, from_dict raises nothing for an attribute mismatch
\* and every key of the merged section that is not a declared field of cls is
\* an attribute the returned config carries, with the section's value.
C2_NonStrictAttachesUndeclaredKeys ==
    (SectionGiven /\ ~call.strict) =>
        /\ result.kind = "config"
        /\ \A k \in DOMAIN Merged \ Fields(call.cls) :
              Carries(result, k, Merged[k])

\* C3: the content of the file written by c.save_pretrained, passed to
\* cls.from_dict, yields a config whose dict() equals c.dict().
C3_SaveLoadRoundTrip ==
    call.op = "from_dict_of_file" =>
        /\ result.kind = "config"
        /\ dict(result.cls, result.attrs) = file.dict

\* C4: every declared field f of cls (own or inherited) of the returned
\* config has the kwargs value of f, else the section's value of f, else the
\* class default of f.
C4_FieldValuePrecedence ==
    (SectionGiven /\ result.kind = "config") =>
        \A f \in Fields(call.cls) :
            result.attrs[f] =
                IF f \in DOMAIN call.kwargs THEN call.kwargs[f]
                ELSE IF f \in DOMAIN SectionBefore THEN SectionBefore[f]
                ELSE Default(call.cls, f)

\* C5: when dict_config has no key cls.config_type, from_dict raises the
\* missing-key error: it returns no config and constructs none.
C5_MissingSectionRaisesKeyError ==
    (call.op = "from_dict" /\ ConfigType(call.cls) \notin DOMAIN call.before) =>
        /\ result.kind = "KeyError"
        /\ ~call.constructed

C5_Witness ==
    /\ call.op = "from_dict"
    /\ DOMAIN call.before # {}
    /\ ConfigType(call.cls) \notin DOMAIN call.before
    /\ DOMAIN call.kwargs # {}
    /\ result.kind = "KeyError"

\* C6: after a from_dict call, returning or raising, the caller's dict_config
\* holds exactly the keys and values it held before the call.
C6_InputUnchanged ==
    call.op = "from_dict" => dict_config = call.before

(***************************************************************************)
(* from_pretrained: the hub serves a configuration, each call fetches it.  *)
(***************************************************************************)
InitHub ==
    /\ python \in Pythons
    /\ hub \in HubConfigs
    /\ ConfigIdle /\ TaskIdle /\ DatasetIdle

\* cls.from_pretrained(path, strict=strict, **kwargs)
FromPretrained(cls, strict, kwargs) ==
    /\ LET r == from_pretrained(cls, hub, strict, kwargs) IN
        /\ result' = r.out
        /\ call' = [op |-> "from_pretrained", cls |-> cls, strict |-> strict,
                    kwargs |-> kwargs, before |-> hub,
                    constructed |-> r.constructed]
    /\ UNCHANGED <<dict_config, ncalls, file, config_rest>>

NextHub ==
    \E cls \in ConfigClasses, strict \in BOOLEAN,
       kwargs \in HubKwargs : FromPretrained(cls, strict, kwargs)

SpecHub == InitHub /\ [][NextHub]_vars

\* C9: from_pretrained returns the fetched configuration unchanged when
\* cls.config_type is 'base', as from_dict is not called: nothing is
\* constructed and nothing raised, whatever the kwargs and also when the
\* configuration has a 'base' section. For every other class the outcome is
\* the one of cls.from_dict(fetched, strict=strict, **kwargs), stated here by
\* what that call does: TypeError for a keyword named after a parameter of
\* from_dict, KeyError without the section of cls, ValueError under strict
\* for a key of the merged section that hasattr(cls, k) rejects, and else a
\* config built from the merged section, kwargs over the section's values.
C9_FromPretrainedDelegates ==
    call.op = "from_pretrained" =>
        IF ConfigType(call.cls) = "base"
        THEN /\ result = Outcome("raw", call.cls, NoAttrs, hub)
             /\ ~call.constructed
        ELSE IF DOMAIN call.kwargs \cap {"cls", "dict_config"} # {}
        THEN result.kind = "TypeError" /\ ~call.constructed
        ELSE IF ConfigType(call.cls) \notin DOMAIN hub
        THEN result.kind = "KeyError" /\ ~call.constructed
        ELSE
            LET section == hub[ConfigType(call.cls)].map
                keys == DOMAIN section \cup DOMAIN call.kwargs
                value(k) == IF k \in DOMAIN call.kwargs THEN call.kwargs[k]
                            ELSE section[k]
                rejected == {k \in keys : ~HasAttr(call.cls, k)}
            IN  /\ call.constructed
                /\ IF call.strict /\ rejected # {}
                   THEN result.kind = "ValueError"
                   ELSE /\ result.kind = "config"
                        /\ result.cls = call.cls
                        /\ DOMAIN result.attrs =
                              Fields(call.cls) \cup rejected
                        /\ \A k \in DOMAIN result.attrs :
                              result.attrs[k] =
                                IF k \in keys /\ (k \in Annotations(call.cls)
                                                  \/ k \in rejected)
                                THEN value(k)
                                ELSE Default(call.cls, k)

\* a strict call whose keyword is rejected, and so raises ValueError
C9_Witness ==
    /\ call.op = "from_pretrained"
    /\ ConfigType(call.cls) # "base"
    /\ call.strict
    /\ DOMAIN call.kwargs # {}
    /\ result.kind = "ValueError"

(***************************************************************************)
(* TaskConfig: the class statement evaluates ModelConfig(), DatasetConfig(),*)
(* CriterionConfig() and OptimizerConfig() once, as the field defaults.    *)
(***************************************************************************)
\* the class of the sub-config held by field f of TaskConfig
SubConfigClass(f) ==
    CASE f = "model_config" -> "ModelConfig"
      [] f = "dataset_config" -> "DatasetConfig"
      [] f = "criterion_config" -> "CriterionConfig"
      [] f = "optimizer_config" -> "OptimizerConfig"

\* the objects the class statement creates
DefaultObjects ==
    [o \in {DefaultObject(f) : f \in SubConfigFields} |->
        New(SubConfigClass(CHOOSE f \in SubConfigFields : DefaultObject(f) = o),
            EmptyDict)]

\* TaskConfig(): the generated __init__ binds each field to its default, the
\* sub-config fields to the objects of the class statement
TaskConfig == New("TaskConfig", EmptyDict)

\* the heap after `task.<sub>.<f> = v`
SetAttr(heap_in, task, sub, f, v) ==
    [heap_in EXCEPT ![task[sub].s] = Update(@, [k \in {f} |-> v])]

task_rest == <<dict_config, result, call, ncalls, file, hub, external, ds,
               events, item>>

\* the state after the class statement of TaskConfig
InitTask ==
    /\ python \in Pythons
    /\ heap = DefaultObjects
    /\ tasks = <<>>
    /\ assigned = <<>>
    /\ ConfigIdle /\ HubIdle /\ DatasetIdle

NewTaskConfig ==
    /\ Len(tasks) < MaxTasks
    /\ tasks' = Append(tasks, TaskConfig)
    /\ UNCHANGED <<python, heap, assigned, task_rest>>

\* tasks[t].<sub>.<f> = v
AssignSubConfigAttr(t, sub, f, v) ==
    /\ t \in DOMAIN tasks
    /\ Len(assigned) < MaxAssign
    /\ heap' = SetAttr(heap, tasks[t], sub, f, v)
    /\ assigned' = Append(assigned, t)
    /\ UNCHANGED <<python, tasks, task_rest>>

\* tasks[t].dict()
TaskConfigDict(t) ==
    /\ t \in DOMAIN tasks
    /\ result' = Outcome("dict", "TaskConfig", dict("TaskConfig", tasks[t]),
                         NoRaw)
    /\ UNCHANGED <<python, heap, tasks, assigned, dict_config, call,
                   ncalls, file, hub, external, ds, events, item>>

NextTask ==
    \/ NewTaskConfig
    \/ \E t \in 1..MaxTasks : TaskConfigDict(t)
    \/ \E t \in 1..MaxTasks, sub \in SubConfigFields, v \in Vals :
          \E f \in Fields(SubConfigClass(sub)) :
              AssignSubConfigAttr(t, sub, f, v)

SpecTask == InitTask /\ [][NextTask]_vars

\* getattr(task, sub): the sub-config object the field refers to
SubConfig(task, sub) == heap[task[sub].s]

\* C10: the sub-configs of a TaskConfig created with default arguments hold
\* their default values whatever was assigned to the sub-configs of the other
\* instances.
C10_DefaultSubConfigsNotShared ==
    \A t \in DOMAIN tasks :
        (\A n \in DOMAIN assigned : assigned[n] # t) =>
            \A sub \in SubConfigFields :
                SubConfig(tasks[t], sub) = New(SubConfigClass(sub), EmptyDict)

(***************************************************************************)
(* TextClassificationDataset.                                              *)
(***************************************************************************)
Range(f) == {f[k] : k \in DOMAIN f}
Max(S) == CHOOSE m \in S : \A x \in S : x <= m

\* {str(k): str(v) for k, v in dict(list(enumerate(labels_list))).items()}
Id2Label(labels_list) ==
    LET n == Len(labels_list)
        index(k) == CHOOSE j \in 0..(n - 1) : ToString(j) = k
    IN  [k \in {ToString(j) : j \in 0..(n - 1)} |->
            Str(labels_list[index(k) + 1])]

\* {v: k for k, v in id2label.items()}: the items come in insertion order,
\* str(0), str(1), ..., and a later item replaces an earlier one of equal key
Label2Id(id2label, n) ==
    [v \in Range(id2label) |->
        ToString(Max({j \in 0..(n - 1) : id2label[ToString(j)] = v}))]

\* _extract_labels with label2id built as a copy of id2label, not inverted
extract_labels_not_inverted(labels_list) ==
    [id2label |-> Id2Label(labels_list),
     label2id |-> Id2Label(labels_list),
     num_labels |-> Len(labels_list)]

\* _extract_labels: the three values assigned to the dataset and its config
extract_labels(labels_list) ==
    [id2label |-> Id2Label(labels_list),
     label2id |-> Label2Id(Id2Label(labels_list), Len(labels_list)),
     num_labels |-> Len(labels_list)]

\* the calls __init__ makes, up to the one that raises
init_events(failure) ==
    CASE failure = "load_dataset" -> <<"load_dataset">>
      [] failure = "names" -> <<"load_dataset", "_extract_labels">>
      [] failure = "Tokenizer.load" ->
            <<"load_dataset", "_extract_labels", "Tokenizer.load">>
      [] OTHER -> <<"load_dataset", "_extract_labels", "Tokenizer.load",
                    "TextPaddingDataCollator">>

\* __getitem__ that loads the tokenizer for each item
getitem_events_reloading(rows, index) ==
    IF index < Len(rows)
    THEN <<"__getitem__", "Tokenizer.load", "preprocessor.__call__">>
    ELSE <<"__getitem__">>

\* the calls __getitem__ makes: the tokenizer call, unless indexing raised
getitem_events(rows, index) ==
    IF index < Len(rows)
    THEN <<"__getitem__", "preprocessor.__call__">>
    ELSE <<"__getitem__">>

\* the calls __len__ makes
len_events == <<"__len__">>

\* the number of __len__ and __getitem__ calls made so far
OpsDone ==
    Cardinality({n \in DOMAIN events : events[n] \in {"__len__", "__getitem__"}})

LabelValues == {StrV("a"), StrV("1"), IntV(1)}
Failures == {"", "load_dataset", "names", "Tokenizer.load"}

\* the sequences over S of length at most n
SeqsUpTo(S, n) == UNION {[1..m -> S] : m \in 0..n}

dataset_rest == <<dict_config, result, call, ncalls, file, hub, python,
                  heap, tasks, assigned>>

\* the external dataset: the names of its label feature, the label id of each
\* row, and which external call fails, if any
InitDataset ==
    /\ python \in Pythons
    /\ \E names \in SeqsUpTo(LabelValues, MaxLabels) :
       \E rows \in SeqsUpTo(0..(Len(names) - 1), MaxRows) :
       \E failure \in Failures :
            external = [failure |-> failure, names |-> names, rows |-> rows]
    /\ ds = NoDataset /\ events = <<>> /\ item = NoItem
    /\ ConfigIdle /\ HubIdle /\ TaskIdle

\* TextClassificationDataset(config, split): __init__
Construct ==
    /\ events = <<>>
    /\ events' = init_events(external.failure)
    /\ LET extracted == external.failure \notin {"load_dataset", "names"}
           labels == IF extracted THEN extract_labels(external.names)
                     ELSE NoLabels
       IN  ds' = [constructed |-> external.failure = "",
                  extracted |-> extracted,
                  raised |-> external.failure,
                  self |-> labels, config |-> labels]
    /\ UNCHANGED <<external, item, dataset_rest>>

\* len(dataset)
DatasetLen ==
    /\ ds.constructed
    /\ OpsDone < MaxOps
    /\ events' = events \o len_events
    /\ item' = [op |-> "len", value |-> Len(external.rows), labels |-> <<>>]
    /\ UNCHANGED <<external, ds, dataset_rest>>

\* dataset[index]
DatasetGetItem(index) ==
    /\ ds.constructed
    /\ OpsDone < MaxOps
    /\ events' = events \o getitem_events(external.rows, index)
    /\ item' = IF index < Len(external.rows)
               THEN [op |-> "item", value |-> index,
                     labels |-> <<external.rows[index + 1]>>]
               ELSE [op |-> "IndexError", value |-> index, labels |-> <<>>]
    /\ UNCHANGED <<external, ds, dataset_rest>>

NextDataset ==
    \/ Construct
    \/ DatasetLen
    \/ \E index \in 0..MaxRows : DatasetGetItem(index)

SpecDataset == InitDataset /\ [][NextDataset]_vars

\* the positions of an external call in the log
Positions(e) == {n \in DOMAIN events : events[n] = e}

\* C7: a constructed dataset has loaded its external dataset and its
\* tokenizer exactly once each, the dataset before the label extraction and
\* the label extraction before the tokenizer, all before any __len__ or
\* __getitem__ call, whatever calls followed.
C7_LoadsOnceAtConstruction ==
    ds.constructed =>
        /\ Cardinality(Positions("load_dataset")) = 1
        /\ Cardinality(Positions("_extract_labels")) = 1
        /\ Cardinality(Positions("Tokenizer.load")) = 1
        /\ \A l \in Positions("load_dataset"), x \in Positions("_extract_labels"),
              t \in Positions("Tokenizer.load") :
                /\ l < x /\ x < t
                /\ \A n \in Positions("__len__") \cup Positions("__getitem__") :
                      t < n

C7_Witness ==
    /\ ds.constructed
    /\ Positions("__len__") # {}
    /\ Positions("preprocessor.__call__") # {}
    /\ item.op = "IndexError"

\* the keys str(0) .. str(n-1)
IndexKeys(n) == {ToString(j) : j \in 0..(n - 1)}

\* id2label has the keys str(0)..str(n-1) with id2label[str(i)] = str(labels[i])
Id2LabelRight(l, names) ==
    /\ DOMAIN l.id2label = IndexKeys(Len(names))
    /\ \A j \in 0..(Len(names) - 1) :
          l.id2label[ToString(j)] = Str(names[j + 1])

\* label2id is the exact inverse of id2label
Label2IdInverse(l) ==
    /\ DOMAIN l.label2id = Range(l.id2label)
    /\ \A k \in DOMAIN l.id2label : l.label2id[l.id2label[k]] = k

\* num_labels = n is the number of entries of id2label
NumLabelsRight(l, names) ==
    /\ l.num_labels = Len(names)
    /\ Cardinality(DOMAIN l.id2label) = l.num_labels

\* C8 as stated: after _extract_labels on a label list of length n, id2label
\* has the keys str(0)..str(n-1) with id2label[str(i)] = str(labels[i]),
\* label2id is the exact inverse of id2label, num_labels = n is the number of
\* entries of id2label and of label2id, and the dataset and its config hold
\* the same three values.
C8_LabelMapsInverse ==
    ds.extracted =>
        /\ Id2LabelRight(ds.self, external.names)
        /\ Label2IdInverse(ds.self)
        /\ NumLabelsRight(ds.self, external.names)
        /\ Cardinality(DOMAIN ds.self.label2id) = ds.self.num_labels
        /\ ds.config = ds.self

\* the str() forms of the labels are pairwise distinct
DistinctLabels(names) ==
    \A a, b \in DOMAIN names : Str(names[a]) = Str(names[b]) => a = b

\* C8 amended: the same, with label2id the exact inverse of id2label and of
\* n entries when the str() forms of the n labels are pairwise distinct; in
\* every case label2id has one entry per distinct label string.
C8_LabelMapsInverseWhenDistinct ==
    ds.extracted =>
        /\ Id2LabelRight(ds.self, external.names)
        /\ NumLabelsRight(ds.self, external.names)
        /\ DOMAIN ds.self.label2id = Range(ds.self.id2label)
        /\ DistinctLabels(external.names) =>
              /\ Label2IdInverse(ds.self)
              /\ Cardinality(DOMAIN ds.self.label2id) = ds.self.num_labels
        /\ ds.config = ds.self

C8_Witness ==
    /\ ds.extracted
    /\ Len(external.names) = MaxLabels
    /\ DistinctLabels(external.names)
    /\ \E a \in DOMAIN external.names : external.names[a].t = "int"
    /\ ds.self.num_labels = MaxLabels

====
